---- MODULE Spec2Model ----
(***************************************************************************)
(* A model of rag_paywatch: the RAGService (services/rag_service.py), its  *)
(* five agent tools, the currency tool (services/currency_service.py),     *)
(* the three handlers of main.py (/upload-excel/, /query/, /logs/), the    *)
(* key check (security/security_utils.py) and the log files                *)
(* (services/logging_service.py).                                          *)
(*                                                                         *)
(* Threads.  The HTTP handlers are coroutines of one event loop; the code  *)
(* of a handler between two awaits runs without interruption by another    *)
(* handler.  ingest_data is synchronous and is called without an await, so *)
(* no other handler runs during it.  The tools are synchronous functions   *)
(* invoked through AgentExecutor.ainvoke, which runs a synchronous tool in *)
(* the default executor, a worker thread: a tool call can therefore run    *)
(* between any two statements of ingest_data.  The ingest is modelled one  *)
(* statement group per step and a tool call as one step.                   *)
(*                                                                         *)
(* Text is modelled as sequences of one-character strings, so that the     *)
(* regular expressions and the substring tests of the tools are computed   *)
(* on characters.                                                          *)
(***************************************************************************)
EXTENDS Integers, Sequences, FiniteSets, TLC

\* ------------------------------------------------------------------ bounds
MaxUploads == 2   \* uploads handled in one behaviour
MaxRows    == 3   \* rows of a spreadsheet drawn for the tool specification
MaxQueries == 1   \* /query/ requests handled in one behaviour
MaxRequests == 3  \* requests handled in one behaviour of the API specifications

\* ------------------------------------------------------------ option values
NoneV == <<>>
Some(x) == <<x>>
IsNone(o) == o = <<>>
The(o) == o[1]

Max(a, b) == IF a >= b THEN a ELSE b
Min(a, b) == IF a <= b THEN a ELSE b

\* -------------------------------------------------------------------- text
LowerMap ==
  [A |-> "a", B |-> "b", C |-> "c", D |-> "d", E |-> "e", F |-> "f", G |-> "g",
   H |-> "h", I |-> "i", J |-> "j", K |-> "k", L |-> "l", M |-> "m", N |-> "n",
   O |-> "o", P |-> "p", Q |-> "q", R |-> "r", S |-> "s", T |-> "t", U |-> "u",
   V |-> "v", W |-> "w", X |-> "x", Y |-> "y", Z |-> "z"]

UpperLetters == DOMAIN LowerMap
LowerLetters == {LowerMap[c] : c \in UpperLetters}
Digits == {"0", "1", "2", "3", "4", "5", "6", "7", "8", "9"}

\* str.lower() on one character, and on a text
LowerChar(c) == IF c \in UpperLetters THEN LowerMap[c] ELSE c
Lower(s) == [i \in 1..Len(s) |-> LowerChar(s[i])]

IsDigit(c) == c \in Digits
IsSpace(c) == c \in {" ", "\t", "\n"}
\* the regular expression class \w
IsWordChar(c) == c \in UpperLetters \/ c \in LowerLetters \/ c \in Digits \/ c = "_"

DigitVal(c) ==
  CASE c = "0" -> 0 [] c = "1" -> 1 [] c = "2" -> 2 [] c = "3" -> 3 [] c = "4" -> 4
    [] c = "5" -> 5 [] c = "6" -> 6 [] c = "7" -> 7 [] c = "8" -> 8 [] c = "9" -> 9

\* int(text) of a run of digits
RECURSIVE ParseInt(_)
ParseInt(s) ==
  IF Len(s) = 0 THEN 0
  ELSE 10 * ParseInt(SubSeq(s, 1, Len(s) - 1)) + DigitVal(s[Len(s)])

\* Python's  sub in s
Contains(s, sub) ==
  \E i \in 1..(Len(s) - Len(sub) + 1) : SubSeq(s, i, i + Len(sub) - 1) = sub

\* \b at the place before s[i] (i in 1..Len(s)+1)
WordBoundaryAt(s, i) ==
  LET before == i > 1 /\ IsWordChar(s[i - 1])
      after  == i <= Len(s) /\ IsWordChar(s[i])
  IN  before # after

\* a keyword at s[i..], letter case ignored (re.IGNORECASE)
KeywordAt(s, i, kw) ==
  /\ i + Len(kw) - 1 <= Len(s)
  /\ Lower(SubSeq(s, i, i + Len(kw) - 1)) = kw

\* \s* from s[j]: the place of the first character that is no white space
RECURSIVE SkipSpaces(_, _)
SkipSpaces(s, j) ==
  IF j <= Len(s) /\ IsSpace(s[j]) THEN SkipSpaces(s, j + 1) ELSE j

\* \d+ from s[j], greedy: the place of the last digit of the run (j-1: no digit)
RECURSIVE DigitRunEnd(_, _)
DigitRunEnd(s, j) ==
  IF j <= Len(s) /\ IsDigit(s[j]) THEN DigitRunEnd(s, j + 1) ELSE j - 1

K_top        == <<"t", "o", "p">>
K_first      == <<"f", "i", "r", "s", "t">>
K_results    == <<"r", "e", "s", "u", "l", "t", "s">>
K_records    == <<"r", "e", "c", "o", "r", "d", "s">>
K_candidates == <<"c", "a", "n", "d", "i", "d", "a", "t", "e", "s">>
K_items      == <<"i", "t", "e", "m", "s">>
K_lowest     == <<"l", "o", "w", "e", "s", "t">>
K_min        == <<"m", "i", "n">>
K_minimum    == <<"m", "i", "n", "i", "m", "u", "m">>
K_least      == <<"l", "e", "a", "s", "t">>

\* r"\b(?:top|first)\s*(\d+)\b" matched at place i: the group's text, or NoneV.
\* A shorter run of digits never helps: it is followed by a digit, where \b fails.
TopFirstAt(s, i) ==
  IF ~WordBoundaryAt(s, i) THEN NoneV
  ELSE LET kws == {kw \in {K_top, K_first} : KeywordAt(s, i, kw)}
       IN  IF kws = {} THEN NoneV
           ELSE LET kw == CHOOSE k \in kws : TRUE
                    j  == SkipSpaces(s, i + Len(kw))
                    e  == DigitRunEnd(s, j)
                IN  IF e >= j /\ WordBoundaryAt(s, e + 1)
                    THEN Some(SubSeq(s, j, e)) ELSE NoneV

\* r"\b(\d+)\s*(?:results|records|candidates|items)\b" matched at place i
CountNounAt(s, i) ==
  IF ~(i <= Len(s) /\ IsDigit(s[i]) /\ WordBoundaryAt(s, i)) THEN NoneV
  ELSE LET e == DigitRunEnd(s, i)
           j == SkipSpaces(s, e + 1)
           kws == {kw \in {K_results, K_records, K_candidates, K_items} :
                     KeywordAt(s, j, kw) /\ WordBoundaryAt(s, j + Len(kw))}
       IN  IF kws # {} THEN Some(SubSeq(s, i, e)) ELSE NoneV

\* re.search: the match at the leftmost place
SearchTopFirst(s) ==
  LET hits == {i \in 1..Len(s) : ~IsNone(TopFirstAt(s, i))}
  IN  IF hits = {} THEN NoneV
      ELSE TopFirstAt(s, CHOOSE i \in hits : \A k \in hits : i <= k)

SearchCountNoun(s) ==
  LET hits == {i \in 1..Len(s) : ~IsNone(CountNounAt(s, i))}
  IN  IF hits = {} THEN NoneV
      ELSE CountNounAt(s, CHOOSE i \in hits : \A k \in hits : i <= k)

DefaultTopN == 3

\* (a variant that tries the count-noun pattern first)
TopNNounFirst(query) ==
  LET m1 == SearchCountNoun(query)
      m  == IF IsNone(m1) THEN SearchTopFirst(query) ELSE m1
  IN  IF IsNone(m) THEN DefaultTopN ELSE Max(1, ParseInt(The(m)))

\* the count a query asks for: rag_service.py 149-157 (and 81-89)
TopN(query) ==
  LET m1 == SearchTopFirst(query)
      m  == IF IsNone(m1) THEN SearchCountNoun(query) ELSE m1
  IN  IF IsNone(m) THEN DefaultTopN ELSE Max(1, ParseInt(The(m)))

\* the sort order a query asks for: rag_service.py 145-146
Order(query) ==
  LET q_lower == Lower(query)
  IN  IF \E w \in {K_lowest, K_min, K_minimum, K_least} : Contains(q_lower, w)
      THEN "lowest" ELSE "highest"


\* --------------------------------------------------------------- spreadsheet
\* A cell of the CTC or Exp column: a number, a text that reads as a number,
\* another text, or an empty cell (pandas NaN).
Num(n)     == [kind |-> "num", num |-> n, text |-> ""]
NumText(n) == [kind |-> "numtext", num |-> n, text |-> ""]
TextCell(s) == [kind |-> "text", num |-> 0, text |-> s]
Blank      == [kind |-> "blank", num |-> 0, text |-> ""]

KindedColumns == {"CTC", "Exp"}
AllColumns == {"Name", "Skills", "Exp", "Location", "CTC"}

P_Pune   == <<"P", "u", "n", "e">>
P_pune   == <<"p", "u", "n", "e">>
P_Mumbai == <<"M", "u", "m", "b", "a", "i">>
\* A cell of the Location column is its text; the empty cell (pandas NaN) is
\* the text of no character.
P_Blank  == <<>>

\* pd.notna(row[col])
NotNa(col, cell) ==
  /\ ~(col \in KindedColumns /\ cell.kind = "blank")
  /\ ~(col = "Location" /\ cell = P_Blank)

Skill(s, n) == [text |-> s, len |-> n]
Row(name, skills, exp, loc, ctc) ==
  [Name |-> name, Skills |-> skills, Exp |-> exp, Location |-> loc, CTC |-> ctc]

\* a row restricted to the columns cols
Project(row, cols) == [c \in cols |-> row[c]]

\* an uploaded file: bytes that parse as a spreadsheet (ok) with these columns
\* and rows, or bytes that do not
Sheet(cols, rows) ==
  [ok |-> TRUE, columns |-> cols,
   rows |-> [i \in 1..Len(rows) |-> Project(rows[i], cols)]]
Corrupt == [ok |-> FALSE, columns |-> {}, rows |-> <<>>]

\* ------------------------------------------------------------- ingest steps
\* pd.read_excel: the table of upload number n (n is the model's mark of
\* which upload a value comes from)
ReadExcel(f, n) == [src |-> n, columns |-> f.columns, rows |-> f.rows]

\* rag_service.py 47-48
DropName(t) ==
  IF "Name" \in t.columns
  THEN [t EXCEPT !.columns = @ \ {"Name"},
                 !.rows = [i \in 1..Len(t.rows) |->
                             Project(t.rows[i], t.columns \ {"Name"})]]
  ELSE t

\* rag_service.py 51-54 raises KeyError: a row without a Skills column
BuildDocsRaises(t) == Len(t.rows) > 0 /\ "Skills" \notin t.columns

Metadata(t, row) ==
  Project(row, {c \in t.columns : c # "Skills" /\ NotNa(c, row[c])})

\* rag_service.py 50-54: one document per row
BuildDocs(t) ==
  [i \in 1..Len(t.rows) |->
     [page_content |-> [text |-> t.rows[i]["Skills"].text, part |-> 0,
                        len |-> t.rows[i]["Skills"].len],
      metadata |-> Metadata(t, t.rows[i])]]

ChunkSize == 1000
ChunkOverlap == 200

\* the pieces a text of n characters is split into: windows of ChunkSize
\* characters, each starting ChunkSize - ChunkOverlap after the one before
NumPieces(n) ==
  IF n <= ChunkSize THEN 1
  ELSE 1 + ((n - ChunkSize) + (ChunkSize - ChunkOverlap) - 1)
             \div (ChunkSize - ChunkOverlap)

SplitOne(doc) ==
  [k \in 1..NumPieces(doc.page_content.len) |->
     [doc EXCEPT !.page_content.part = k,
                 !.page_content.len = Min(ChunkSize, doc.page_content.len)]]

\* text_splitter.split_documents: rag_service.py 33-37, 56
RECURSIVE SplitDocuments(_)
SplitDocuments(ds) ==
  IF Len(ds) = 0 THEN <<>>
  ELSE SplitDocuments(SubSeq(ds, 1, Len(ds) - 1)) \o SplitOne(ds[Len(ds)])

\* FAISS.from_documents raises: the embeddings call fails, or there is no
\* chunk to take the vectors' dimension from
FromDocumentsRaises(ds, embedOk) == Len(ds) = 0 \/ ~embedOk
FromDocuments(ds, n) == [src |-> n, chunks |-> ds]

\* (a variant that looks at the table alone)
NotInitializedTableOnly(vs, d) == IsNone(d)

\* rag_service.py 71: get_agent_executor raises "not initialized"
NotInitialized(vs, d) == IsNone(vs) \/ IsNone(d)


\* -------------------------------------------------------------------- tools
\* What a tool call ends with.  outcome is "returned" or "raised"; kind says
\* which of the other fields the returned value fills.  index holds the
\* DataFrame index labels of the rows of results (the rows' places in the
\* table), which to_dict(orient='records') leaves out of the records;
\* requests counts the requests the call sent to the rate API.
NoCall ==
  [tool |-> "", outcome |-> "", kind |-> "", text |-> "", order |-> "",
   location |-> NoneV, count |-> 0, results |-> <<>>, index |-> <<>>,
   values |-> <<>>, rate |-> NoneV, requests |-> 0]

Returned(tool, kind) == [NoCall EXCEPT !.tool = tool, !.outcome = "returned", !.kind = kind]
Raised(tool, msg) == [NoCall EXCEPT !.tool = tool, !.outcome = "raised", !.text = msg]
TextResult(tool, msg) == [Returned(tool, "text") EXCEPT !.text = msg]

\* (a variant that reads what is no number as zero)
ToNumericZero(cell) ==
  IF cell.kind \in {"num", "numtext"} THEN Some(cell.num) ELSE Some(0)

\* pd.to_numeric(cell, errors='coerce'): the number, or NoneV for NaN
ToNumeric(cell) ==
  IF cell.kind \in {"num", "numtext"} THEN Some(cell.num) ELSE NoneV

\* str(cell) of a cell of a kinded column (astype(str))
AsStr(cell) == IF cell.kind = "blank" THEN "nan" ELSE cell.text

\* Series.unique(): the distinct values in the order of their first appearance
RECURSIVE Unique(_)
Unique(s) ==
  IF Len(s) = 0 THEN <<>>
  ELSE LET u == Unique(SubSeq(s, 1, Len(s) - 1))
       IN  IF \E k \in 1..Len(u) : u[k] = s[Len(s)] THEN u ELSE Append(u, s[Len(s)])

\* the index labels of the rows of t whose CTC is a number: rag_service.py 140-142
NumericRows(t) ==
  SelectSeq([i \in 1..Len(t.rows) |-> i],
            LAMBDA i : ~IsNone(ToNumeric(t.rows[i]["CTC"])))

\* rag_service.py 160-166: the first of the locations of the rows idx that the
\* lower-cased query contains; dropna() leaves the empty cells out
DetectLocation(t, idx, q_lower) ==
  IF "Location" \notin t.columns THEN NoneV
  ELSE LET unique_locations == Unique([k \in 1..Len(idx) |-> t.rows[idx[k]]["Location"]])
           hits == {k \in 1..Len(unique_locations) :
                      /\ Len(unique_locations[k]) > 0
                      /\ Contains(q_lower, Lower(unique_locations[k]))}
       IN  IF hits = {} THEN NoneV
           ELSE Some(unique_locations[CHOOSE k \in hits : \A j \in hits : k <= j])

\* rag_service.py 168-169
FilterLocation(t, idx, location_value) ==
  IF IsNone(location_value) THEN idx
  ELSE SelectSeq(idx, LAMBDA i :
         Lower(t.rows[i]["Location"]) = Lower(The(location_value)))

\* (a variant that sorts the other way)
AscendingSwapped(order) == order = "highest"

\* rag_service.py 174: ascending=(order == 'lowest')
Ascending(order) == order = "lowest"

\* sort_values('CTC_numeric', ascending=...): the default sort is not stable,
\* so every arrangement of idx that is in order is a possible outcome
SortValues(t, idx, ascending) ==
  LET n == Len(idx)
      key(i) == The(ToNumeric(t.rows[i]["CTC"]))
  IN  {p \in [1..n -> {idx[k] : k \in 1..n}] :
         /\ \A a, b \in 1..n : a # b => p[a] # p[b]
         /\ \A a, b \in 1..n :
              a < b => IF ascending THEN key(p[a]) <= key(p[b])
                                    ELSE key(p[a]) >= key(p[b])}

\* DataFrame.head(n)
head(s, n) == SubSeq(s, 1, Min(n, Len(s)))

\* ctc_query: rag_service.py 135-188.  The set of the values it can return.
ctc_query(d, query) ==
  IF IsNone(d)
  THEN {TextResult("ctc_query", "An error occurred while processing CTC query")}
  ELSE
  LET t == The(d) IN
  IF "CTC" \notin t.columns
  THEN {TextResult("ctc_query", "CTC column not found in dataset.")}
  ELSE
  LET df_local == NumericRows(t)
      q_lower  == Lower(query)
      order    == Order(query)
      top_n    == TopN(query)
      location_value == DetectLocation(t, df_local, q_lower)
      filtered == FilterLocation(t, df_local, location_value)
  IN  IF Len(filtered) = 0
      THEN {TextResult("ctc_query", "No matching records found for the given criteria.")}
      ELSE {LET df_selected == head(df_sorted, top_n)
                records == [k \in 1..Len(df_selected) |-> t.rows[df_selected[k]]]
            IN  [Returned("ctc_query", "struct") EXCEPT
                   !.order = order, !.location = location_value,
                   !.count = Len(records), !.results = records,
                   !.index = df_selected]
            : df_sorted \in SortValues(t, filtered, Ascending(order))}

\* get_all_ctc_values: rag_service.py 100-104
get_all_ctc_values(d) ==
  IF IsNone(d) \/ "CTC" \notin The(d).columns
  THEN TextResult("get_all_ctc_values", "An error occurred while retrieving CTC data")
  ELSE LET t == The(d)
           kept == NumericRows(t)
       IN  [Returned("get_all_ctc_values", "json") EXCEPT
              !.values = [k \in 1..Len(kept) |-> The(ToNumeric(t.rows[kept[k]]["CTC"]))],
              !.index = kept]

\* get_exp_locations: rag_service.py 113-122
get_exp_locations(d, experience) ==
  IF IsNone(d) \/ "Exp" \notin The(d).columns
  THEN TextResult("get_exp_locations", "An error occurred")
  ELSE LET t == The(d)
           filtered == SelectSeq([i \in 1..Len(t.rows) |-> i],
                                 LAMBDA i : AsStr(t.rows[i]["Exp"]) = experience)
       IN  IF Len(filtered) = 0
           THEN TextResult("get_exp_locations",
                           "No candidates found with that exact experience.")
           ELSE IF "Location" \notin t.columns
           THEN TextResult("get_exp_locations", "An error occurred")
           \* ', '.join(locations) raises TypeError on a NaN: rag_service.py 120
           ELSE IF \E k \in 1..Len(filtered) : t.rows[filtered[k]]["Location"] = P_Blank
           THEN TextResult("get_exp_locations", "An error occurred")
           ELSE [Returned("get_exp_locations", "locations") EXCEPT
                   !.results = [k \in 1..Len(filtered) |-> t.rows[filtered[k]]["Location"]],
                   !.index = filtered]

\* retrieve_documents: rag_service.py 80-92.  similarity_search is the
\* library's: it raises when the query cannot be embedded (searchOk false), and
\* otherwise returns requested_k chunks of the index, or all of them when the
\* index holds fewer; which chunks is the embedding's choice (picked).
retrieve_documents(vs, query, searchOk, picked) ==
  LET requested_k == TopN(query) IN
  IF IsNone(vs) \/ ~searchOk
  THEN Raised("retrieve_documents", "similarity_search failed")
  ELSE LET chunks == The(vs).chunks
           found == SelectSeq([i \in 1..Len(chunks) |-> i], LAMBDA i : i \in picked)
           results == head(found, requested_k)
       IN  [Returned("retrieve_documents", "docs") EXCEPT
              !.results = [k \in 1..Len(results) |-> chunks[results[k]]],
              !.index = results, !.count = Len(results)]

\* the chunk sets similarity_search can return for k
Picks(vs, k) ==
  IF IsNone(vs) THEN {{}}
  ELSE LET n == Len(The(vs).chunks)
       IN  {S \in SUBSET (1..n) : Cardinality(S) = Min(k, n)}

\* What the rate API can answer to one request: no answer, an HTTP error
\* status, a JSON object with conversion_rate, a JSON object without it, or a
\* JSON value that is no object (a list, a string, null).  The rates are in
\* hundredths.
Rates == {120, 121}
NoResponse == [kind |-> "", rate |-> 0]
RateResponses ==
  {[NoResponse EXCEPT !.kind = k] :
     k \in {"network_error", "http_error", "object_without_rate", "not_an_object"}}
    \cup {[kind |-> "rate_object", rate |-> r] : r \in Rates}

\* (a variant that keeps the rate of an earlier call and answers with it)
get_exchange_rate_cached(from_currency, to_currency, response) ==
  LET first == CHOOSE r \in Rates : \A x \in Rates : r <= x
  IN  [Returned("get_exchange_rate", "rate") EXCEPT !.rate = Some(first)]

\* get_exchange_rate: currency_service.py 11-31.  One requests.get (line 17)
\* and no loop.  requests.get and raise_for_status raise a RequestException,
\* caught (26-28); a JSON object without the key raises KeyError, caught
\* (29-31); a JSON value that is no object raises TypeError at line 23, which
\* no handler catches.
get_exchange_rate(from_currency, to_currency, response) ==
  LET sent == [Returned("get_exchange_rate", "rate") EXCEPT !.requests = 1] IN
  CASE response.kind \in {"network_error", "http_error"} ->
         [sent EXCEPT !.rate = NoneV]
    [] response.kind = "object_without_rate" ->
         [sent EXCEPT !.rate = NoneV]
    [] response.kind = "rate_object" ->
         [sent EXCEPT !.rate = Some(response.rate)]
    [] response.kind = "not_an_object" ->
         [Raised("get_exchange_rate", "TypeError") EXCEPT !.requests = 1]

\* the phrases of the queries
T_LEAST == <<"l", "e", "a", "s", "t", " ", "p", "a", "i", "d">>
T_ADMIN == <<"A", "D", "M", "I", "N", " ", "p", "a", "y">>
T_5REC == <<"5", " ", "R", "e", "c", "o", "r", "d", "s">>
T_2RECX == <<"2", " ", "r", "e", "c", "o", "r", "d", "s", "x">>
T_TOP2 == <<"t", "o", "p", " ", "2">>
T_FIRST0 == <<"F", "I", "R", "S", "T", "0">>
T_STOP4 == <<"s", "t", "o", "p", " ", "4">>
T_INPUNE == <<"i", "n", " ", "p", "u", "n", "e">>
T_MUMBAI == <<"M", "u", "m", "b", "a", "i", " ", "g", "o", "a">>

\* ------------------------------------------------------------------- inputs
\* A query text is put together from four phrases, in this order and with one
\* space between them: an order phrase, a count-noun phrase, a top/first
\* phrase and a location phrase.  Each phrase carries what a reader of the
\* tool's contract takes it to say: lowest (it asks for the lowest), n (the
\* count it names, NoneV when it names none).
NoPhrase == [text |-> <<>>, lowest |-> FALSE, n |-> NoneV]
Phrase(text) == [NoPhrase EXCEPT !.text = text]

OrderPhrases ==
  {NoPhrase,
   [Phrase(T_LEAST) EXCEPT !.lowest = TRUE],
   [Phrase(T_ADMIN) EXCEPT !.lowest = TRUE]}

NounPhrases ==
  {NoPhrase,
   [Phrase(T_5REC) EXCEPT !.n = Some(5)],
   Phrase(T_2RECX)}

TopPhrases ==
  {NoPhrase,
   [Phrase(T_TOP2) EXCEPT !.n = Some(2)],
   [Phrase(T_FIRST0) EXCEPT !.n = Some(0)],
   Phrase(T_STOP4)}

LocationPhrases == {NoPhrase, Phrase(T_INPUNE), Phrase(T_MUMBAI)}

Query(o, c, p, l) == [ord |-> o, noun |-> c, top |-> p, loc |-> l]
Queries ==
  {Query(o, c, p, l) : o \in OrderPhrases, c \in NounPhrases,
                        p \in TopPhrases, l \in LocationPhrases}

Join(a, b) == IF Len(a) = 0 THEN b ELSE IF Len(b) = 0 THEN a ELSE a \o <<" ">> \o b
\* the text of a query, as the agent hands it to a tool
QueryText(q) == Join(Join(Join(q.ord.text, q.noun.text), q.top.text), q.loc.text)

\* the queries that say nothing but a count
CountQueries == {q \in Queries : q.ord = NoPhrase /\ q.loc = NoPhrase}

Experiences == {"2y 6m", "2y 06m", "nan", "7y"}
FromCurrencies == {"INR"}
ToCurrencies == {"USD", "EUR"}

NoInput == [query |-> Query(NoPhrase, NoPhrase, NoPhrase, NoPhrase), experience |-> "",
            from_currency |-> "", to_currency |-> "", response |-> NoResponse]

\* the rows spreadsheets are made of
RowPune10   == Row("Asha", Skill("python", 40), TextCell("2y 6m"), P_Pune, Num(10))
RowMumbai5  == Row("Ravi", Skill("java", 1500), TextCell("2y 06m"), P_Mumbai, Num(5))
RowPuneNA   == Row("Meera", Skill("sql", 12), TextCell("2y 6m"), P_Pune, TextCell("NA"))
Rowpune20   == Row("Kiran", Skill("go", 8), Blank, P_pune, NumText(20))
RowMumbai0  == Row("Zoya", Skill("rust", 30), TextCell("7y"), P_Mumbai, Blank)
RowKinds == {RowPune10, RowMumbai5, RowPuneNA, Rowpune20, RowMumbai0}
\* a row with an empty Location cell
RowNowhere7 == Row("Dev", Skill("c", 5), TextCell("2y 6m"), P_Blank, Num(7))

\* the sequences over S of length lo..hi
SeqsOf(S, lo, hi) == UNION {[1..n -> S] : n \in lo..hi}

\* the files uploaded in the service specification
ServiceFiles ==
  {Sheet(AllColumns, <<RowPune10, RowMumbai5>>),
   Sheet(AllColumns \ {"Name"}, <<RowPuneNA, Rowpune20>>),
   Sheet(AllColumns \ {"Skills"}, <<RowMumbai5>>),
   Sheet(AllColumns, <<>>),
   Corrupt}

\* the queries and experiences the agent hands to tools there
ServiceQueries == {Query([Phrase(T_LEAST) EXCEPT !.lowest = TRUE], NoPhrase,
                         [Phrase(T_TOP2) EXCEPT !.n = Some(2)], NoPhrase)}
ServiceExperiences == {"2y 6m"}

\* ------------------------------------------------------------ HTTP and logs
\* security_utils.py 7: the X-API-Key header of a request; NoKey is a request
\* without the header (auto_error=False hands None to get_api_key)
NoKey == ""
Secret == "local-dev-key"
Keys == {NoKey, Secret, "other-key"}

\* (a variant that lets a request without the header through)
get_api_key_raises_on_wrong_only(api_key) == api_key # NoKey /\ api_key # Secret

\* security_utils.py 6-12: get_api_key raises HTTPException 401
get_api_key_raises(api_key) == api_key = NoKey \/ api_key # Secret

\* main.py 35: file.filename.endswith(('.xlsx', '.xls'))
Filenames == {"cv.xlsx", "cv.xls", "cv.csv"}
IsExcelName(filename) == filename \in {"cv.xlsx", "cv.xls"}

\* An HTTP response: its status and what its body is.
NoResp == [status |-> 0, body |-> ""]
Resp(status, body) == [status |-> status, body |-> body]

\* What the upload handler's response is when the handler returns None
\* (main.py 48-51: ingest_data returned False and no statement follows).  The
\* route declares response_model=UploadStatus: a framework that validates None
\* against the model answers 500, one that lets None through answers 200 with
\* the body null.
NoneResponses == {Resp(500, "Internal Server Error"), Resp(200, "null")}

\* The log files of one day: logging_service.py 171.  An entry is the log_data
\* of a call; by and req say which request wrote it.
LogTypes == {"queries", "responses", "uploads", "errors"}
NoLogs == [t \in LogTypes |-> <<>>]
LogData(event_type, error_type, by, req) ==
  [event_type |-> event_type, error_type |-> error_type, by |-> by, req |-> req]

\* (a variant that opens the file for writing, not for appending)
WriteStructuredLogTruncating(l, log_data, log_type, ok) ==
  IF ok THEN [l EXCEPT ![log_type] = <<log_data>>] ELSE l

\* logging_service.py 163-177: _write_structured_log appends one line to the
\* file of log_type; when the file cannot be opened or written (ok false) the
\* exception is caught and the files are left as they are
write_structured_log(l, log_data, log_type, ok) ==
  IF ok THEN [l EXCEPT ![log_type] = Append(@, log_data)] ELSE l

\* logging_service.py 53-74, 76-104, 106-134, 136-161
log_query(l, by, req, ok) ==
  write_structured_log(l, LogData("user_query", "", by, req), "queries", ok)
log_rag_response(l, by, req, ok) ==
  write_structured_log(l, LogData("rag_response", "", by, req), "responses", ok)
log_file_upload(l, by, req, ok) ==
  write_structured_log(l, LogData("file_upload", "", by, req), "uploads", ok)
log_error(l, error_type, by, req, ok) ==
  write_structured_log(l, LogData("error", error_type, by, req), "errors", ok)

\* logging_service.py 179-208: the entries of the files of log_type for a date;
\* the files of another day than the one modelled do not exist
ValidLogTypes == LogTypes \cup {"all"}
LogTypeParams == {"all", "queries", "errors", "everything"}
Dates == {"today", "another day"}
RECURSIVE ConcatLogs(_, _)
ConcatLogs(l, types) ==
  IF types = {} THEN <<>>
  ELSE LET t == CHOOSE x \in types : TRUE
       IN  l[t] \o ConcatLogs(l, types \ {t})
get_logs_by_date(l, date, log_type) ==
  IF date # "today" THEN <<>>
  ELSE ConcatLogs(l, IF log_type = "all" THEN LogTypes ELSE {log_type})

\* (a variant that adds the CTC_numeric column to the shared table itself)
DfAfterCtcQueryInPlace(d) ==
  IF IsNone(d) \/ "CTC" \notin The(d).columns THEN d
  ELSE LET t == The(d)
           cols == t.columns \cup {"CTC_numeric"}
       IN  Some([t EXCEPT !.columns = cols,
                          !.rows = [i \in 1..Len(t.rows) |->
                                      [c \in cols |-> IF c = "CTC_numeric"
                                                      THEN ToNumeric(t.rows[i]["CTC"])
                                                      ELSE t.rows[i][c]]]])

\* rag_service.py 140-142: ctc_query adds its column to, and drops rows from,
\* a copy (self.df.copy()); self.df after the call is self.df before it
DfAfterCtcQuery(d) == d

\* -------------------------------------------------------------------- state
VARIABLES
  df,            \* RAGService.df: NoneV or Some(table)
  docs,          \* RAGService.docs: the chunks
  vector_store,  \* RAGService.vector_store: NoneV or Some(index)
  nUploads,      \* /upload-excel/ requests so far
  ingPc,         \* where the ingest_data call in progress stands ("idle": none)
  ingFile,       \* the file it ingests
  ingReturn,     \* what the last ingest_data call returned ("running": not yet)
  pre,           \* df, docs and vector_store as they were when it was called
  everOk,        \* some ingest_data call has returned True
  qPc,           \* where the /query/ request in flight stands
  qStatus,       \* the HTTP status of the last /query/ response (0: none yet)
  qObs,          \* which uploads' table and index the tool calls of the
                 \* agent invocation in flight found in df and vector_store
  toolCall,      \* what the last tool call ended with
  toolIn,        \* what it was called with
  upHttp,        \* the last /upload-excel/ request: its key, whether its file
                 \* name is an Excel name, and its response (NoResp: none yet)
  qKey,          \* the key of the last /query/ request
  nQueries,      \* /query/ requests so far
  logHttp,       \* the last /logs/ request: its number, key, response, count
  logs,          \* the log files
  lost           \* the entries whose write failed

svcVars == <<df, docs, vector_store>>
ingVars == <<nUploads, ingPc, ingFile, ingReturn, pre, everOk>>
qVars == <<qPc, qStatus, qObs>>
toolVars == <<toolCall, toolIn>>
httpVars == <<upHttp, qKey, nQueries, logHttp>>
logVars == <<logs, lost>>
vars == <<df, docs, vector_store, nUploads, ingPc, ingFile, ingReturn, pre, everOk,
          qPc, qStatus, qObs, toolCall, toolIn, upHttp, qKey, nQueries, logHttp,
          logs, lost>>

Snapshot == [df |-> df, docs |-> docs, vector_store |-> vector_store]
SrcOf(o) == IF IsNone(o) THEN 0 ELSE The(o).src

NoUpload == [key |-> NoKey, excel |-> FALSE, resp |-> NoResp]
NoLogRead == [n |-> 0, key |-> NoKey, resp |-> NoResp, count |-> 0]

\* RAGService.__init__: rag_service.py 38-40; main.py 20-23
Init ==
  /\ df = NoneV /\ docs = <<>> /\ vector_store = NoneV
  /\ nUploads = 0 /\ ingPc = "idle" /\ ingFile = Corrupt /\ ingReturn = "none"
  /\ pre = [df |-> NoneV, docs |-> <<>>, vector_store |-> NoneV]
  /\ everOk = FALSE
  /\ qPc = "idle" /\ qStatus = 0 /\ qObs = {}
  /\ toolCall = NoCall /\ toolIn = NoInput
  /\ upHttp = NoUpload /\ qKey = NoKey /\ nQueries = 0 /\ logHttp = NoLogRead
  /\ logs = NoLogs /\ lost = {}

\* the entries whose write failed, after the write of e
Lose(e, ok) == IF ok THEN lost ELSE lost \cup {e}

\* ------------------------------------------------------------------- upload
\* main.py 25-26: get_api_key rejects the request; the handler does not run
UploadUnauthorized(key, filename) ==
  /\ ingPc = "idle" /\ nUploads < MaxUploads
  /\ get_api_key_raises(key)
  /\ nUploads' = nUploads + 1
  /\ upHttp' = [key |-> key, excel |-> IsExcelName(filename), resp |-> Resp(401, "detail")]
  /\ UNCHANGED <<svcVars, ingPc, ingFile, ingReturn, pre, everOk, qVars, toolVars,
                 qKey, nQueries, logHttp, logVars>>

\* main.py 35, 65-77: not an Excel file name: the error is logged and the
\* response is 400
UploadWrongType(key, filename, ok) ==
  /\ ingPc = "idle" /\ nUploads < MaxUploads
  /\ ~get_api_key_raises(key) /\ ~IsExcelName(filename)
  /\ nUploads' = nUploads + 1
  /\ logs' = log_error(logs, "invalid_file_type", "upload", nUploads + 1, ok)
  /\ lost' = Lose(LogData("error", "invalid_file_type", "upload", nUploads + 1), ok)
  /\ upHttp' = [key |-> key, excel |-> IsExcelName(filename), resp |-> Resp(400, "detail")]
  /\ UNCHANGED <<svcVars, ingPc, ingFile, ingReturn, pre, everOk, qVars, toolVars,
                 qKey, nQueries, logHttp>>

\* main.py 35-48: the handler reads the file, logs the upload and calls
\* ingest_data
Upload(key, filename, f, ok) ==
  /\ ingPc = "idle" /\ nUploads < MaxUploads
  /\ ~get_api_key_raises(key) /\ IsExcelName(filename)
  /\ nUploads' = nUploads + 1
  /\ logs' = log_file_upload(logs, "upload", nUploads + 1, ok)
  /\ lost' = Lose(LogData("file_upload", "", "upload", nUploads + 1), ok)
  /\ upHttp' = [key |-> key, excel |-> IsExcelName(filename), resp |-> NoResp]
  /\ ingFile' = f /\ ingPc' = "read" /\ ingReturn' = "running"
  /\ pre' = Snapshot
  /\ UNCHANGED <<svcVars, everOk, qVars, toolVars, qKey, nQueries, logHttp>>

\* rag_service.py 63-65: the exception is caught and False returned; main.py
\* 48-51: the handler then returns None
ReturnFalse ==
  /\ ingPc' = "idle" /\ ingReturn' = "False"
  /\ \E r \in NoneResponses : upHttp' = [upHttp EXCEPT !.resp = r]

\* rag_service.py 45
IngestRead ==
  /\ ingPc = "read"
  /\ IF ingFile.ok
     THEN /\ df' = Some(ReadExcel(ingFile, nUploads))
          /\ ingPc' = "drop" /\ UNCHANGED <<ingReturn, upHttp>>
     ELSE ReturnFalse /\ UNCHANGED df
  /\ UNCHANGED <<docs, vector_store, nUploads, ingFile, pre, everOk, qVars, toolVars,
                 qKey, nQueries, logHttp, logVars>>

\* rag_service.py 47-48
IngestDropName ==
  /\ ingPc = "drop"
  /\ df' = Some(DropName(The(df)))
  /\ ingPc' = "docs"
  /\ UNCHANGED <<docs, vector_store, nUploads, ingFile, ingReturn, pre, everOk,
                 qVars, toolVars, httpVars, logVars>>

\* rag_service.py 50-56
IngestDocs ==
  /\ ingPc = "docs"
  /\ IF BuildDocsRaises(The(df))
     THEN ReturnFalse /\ UNCHANGED docs
     ELSE /\ docs' = SplitDocuments(BuildDocs(The(df)))
          /\ ingPc' = "index" /\ UNCHANGED <<ingReturn, upHttp>>
  /\ UNCHANGED <<df, vector_store, nUploads, ingFile, pre, everOk, qVars, toolVars,
                 qKey, nQueries, logHttp, logVars>>

\* rag_service.py 58-62; main.py 48-49: ingest_data returns True and the
\* handler answers with an UploadStatus
IngestIndex ==
  /\ ingPc = "index"
  /\ \E embedOk \in BOOLEAN :
       IF FromDocumentsRaises(docs, embedOk)
       THEN ReturnFalse /\ UNCHANGED <<vector_store, everOk>>
       ELSE /\ vector_store' = Some(FromDocuments(docs, nUploads))
            /\ ingPc' = "idle" /\ ingReturn' = "True" /\ everOk' = TRUE
            /\ upHttp' = [upHttp EXCEPT !.resp = Resp(200, "UploadStatus")]
  /\ UNCHANGED <<df, docs, nUploads, ingFile, pre, qVars, toolVars,
                 qKey, nQueries, logHttp, logVars>>

\* -------------------------------------------------------------------- query
\* main.py 95-96: get_api_key rejects the request; the handler does not run
QueryUnauthorized(key) ==
  /\ qPc \in {"idle", "done"} /\ ingPc = "idle" /\ nQueries < MaxQueries
  /\ get_api_key_raises(key)
  /\ nQueries' = nQueries + 1 /\ qKey' = key
  /\ qPc' = "done" /\ qStatus' = 401
  /\ UNCHANGED <<svcVars, ingVars, qObs, toolVars, upHttp, logHttp, logVars>>

\* main.py 96-116, 136-154: the handler up to its await.  It logs the query;
\* get_agent_executor raises when there is no table or no index, and the
\* handler then logs the error and answers 500.
QueryBegin(key, ok1, ok2) ==
  /\ qPc \in {"idle", "done"} /\ ingPc = "idle" /\ nQueries < MaxQueries
  /\ ~get_api_key_raises(key)
  /\ nQueries' = nQueries + 1 /\ qKey' = key
  /\ LET n == nQueries + 1
         l1 == log_query(logs, "query", n, ok1)
         lost1 == Lose(LogData("user_query", "", "query", n), ok1)
     IN  IF NotInitialized(vector_store, df)
         THEN /\ qPc' = "done" /\ qStatus' = 500
              /\ logs' = log_error(l1, "query_error", "query", n, ok2)
              /\ lost' = IF ok2 THEN lost1
                         ELSE lost1 \cup {LogData("error", "query_error", "query", n)}
         ELSE /\ qPc' = "agent" /\ qStatus' = 0
              /\ logs' = l1 /\ lost' = lost1
  /\ qObs' = {}
  /\ toolCall' = NoCall /\ toolIn' = NoInput
  /\ UNCHANGED <<svcVars, ingVars, upHttp, logHttp>>

\* a tool call of the agent: it ends with r, having been called with in
ToolCall(r, in) ==
  /\ qPc = "agent"
  /\ toolCall' = r /\ toolIn' = in
  /\ qObs' = qObs \cup {[df |-> SrcOf(df), vector_store |-> SrcOf(vector_store)]}
  /\ qPc' = IF r.outcome = "raised" THEN "raised" ELSE "agent"
  /\ df' = IF r.tool = "ctc_query" THEN DfAfterCtcQuery(df) ELSE df
  /\ UNCHANGED <<docs, vector_store, ingVars, qStatus, httpVars, logVars>>

CallRetrieveDocuments(Q) ==
  \E q \in Q, searchOk \in BOOLEAN :
    \E picked \in Picks(vector_store, TopN(QueryText(q))) :
      ToolCall(retrieve_documents(vector_store, QueryText(q), searchOk, picked),
               [NoInput EXCEPT !.query = q])

CallGetAllCtcValues == ToolCall(get_all_ctc_values(df), NoInput)

CallGetExpLocations(E) ==
  \E e \in E : ToolCall(get_exp_locations(df, e), [NoInput EXCEPT !.experience = e])

CallCtcQuery(Q) ==
  \E q \in Q : \E r \in ctc_query(df, QueryText(q)) :
    ToolCall(r, [NoInput EXCEPT !.query = q])

CallGetExchangeRate ==
  \E a \in FromCurrencies, b \in ToCurrencies, resp \in RateResponses :
    ToolCall(get_exchange_rate(a, b, resp),
             [NoInput EXCEPT !.from_currency = a, !.to_currency = b, !.response = resp])

\* main.py 116-134: the agent's answer comes back; the handler logs the
\* response and answers 200
AgentAnswer(ok) ==
  /\ qPc = "agent" /\ ingPc = "idle"
  /\ qPc' = "done" /\ qStatus' = 200
  /\ logs' = log_rag_response(logs, "query", nQueries, ok)
  /\ lost' = Lose(LogData("rag_response", "", "query", nQueries), ok)
  /\ UNCHANGED <<svcVars, ingVars, qObs, toolVars, httpVars>>

\* main.py 136-154: ainvoke raises (a tool raised, or the model's API
\* failed); the handler logs the error and answers 500
AgentError(ok) ==
  /\ qPc \in {"agent", "raised"} /\ ingPc = "idle"
  /\ qPc' = "done" /\ qStatus' = 500
  /\ logs' = log_error(logs, "query_error", "query", nQueries, ok)
  /\ lost' = Lose(LogData("error", "query_error", "query", nQueries), ok)
  /\ UNCHANGED <<svcVars, ingVars, qObs, toolVars, httpVars>>

\* --------------------------------------------------------------------- logs
\* main.py 156-157: get_api_key rejects the request; the handler does not run
LogsUnauthorized(key) ==
  /\ ingPc = "idle"
  /\ get_api_key_raises(key)
  /\ logHttp' = [n |-> logHttp.n + 1, key |-> key, resp |-> Resp(401, "detail"),
                 count |-> 0]
  /\ UNCHANGED <<svcVars, ingVars, qVars, toolVars, upHttp, qKey, nQueries, logVars>>

\* main.py 172-201: an unknown log_type is answered 400; otherwise the entries
\* are read, the access is logged as a query, and the entries are returned
GetLogs(key, date, log_type, ok) ==
  /\ ingPc = "idle"
  /\ ~get_api_key_raises(key)
  /\ LET n == logHttp.n + 1 IN
     IF log_type \notin ValidLogTypes
     THEN /\ logHttp' = [n |-> n, key |-> key, resp |-> Resp(400, "detail"),
                         count |-> 0]
          /\ UNCHANGED logVars
     ELSE /\ logHttp' = [n |-> n, key |-> key, resp |-> Resp(200, "logs"),
                         count |-> Len(get_logs_by_date(logs, date, log_type))]
          /\ logs' = log_query(logs, "logs", n, ok)
          /\ lost' = Lose(LogData("user_query", "", "logs", n), ok)
  /\ UNCHANGED <<svcVars, ingVars, qVars, toolVars, upHttp, qKey, nQueries>>

\* The service under requests that carry the key, with log files that can be
\* written: uploads, the ingest's steps, queries and the agent's tool calls.
Next ==
  \/ \E filename \in Filenames : UploadWrongType(Secret, filename, TRUE)
  \/ \E filename \in Filenames, f \in ServiceFiles : Upload(Secret, filename, f, TRUE)
  \/ IngestRead
  \/ IngestDropName
  \/ IngestDocs
  \/ IngestIndex
  \/ QueryBegin(Secret, TRUE, TRUE)
  \/ CallRetrieveDocuments(ServiceQueries)
  \/ CallGetAllCtcValues
  \/ CallGetExpLocations(ServiceExperiences)
  \/ CallCtcQuery(ServiceQueries)
  \/ CallGetExchangeRate
  \/ AgentAnswer(TRUE)
  \/ AgentError(TRUE)

Spec == Init /\ [][Next]_vars

\* ------------------------------------------------------- API specifications
\* the files uploaded in the two specifications below
ApiFiles ==
  {Sheet(AllColumns, <<RowPune10, RowMumbai5>>),
   Sheet(AllColumns \ {"Name"}, <<RowPuneNA, Rowpune20>>),
   Sheet(AllColumns \ {"Skills"}, <<RowMumbai5>>)}

\* a further request is taken
Budget == nUploads + nQueries + logHttp.n < MaxRequests

\* The three endpoints under requests with any key (log files that can be
\* written).
ApiNext ==
  \/ Budget /\ \E key \in Keys, filename \in Filenames : UploadUnauthorized(key, filename)
  \/ Budget /\ \E key \in Keys, filename \in Filenames :
                 UploadWrongType(key, filename, TRUE)
  \/ Budget /\ \E key \in Keys, filename \in Filenames, f \in ApiFiles :
                 Upload(key, filename, f, TRUE)
  \/ IngestRead
  \/ IngestDropName
  \/ IngestDocs
  \/ IngestIndex
  \/ Budget /\ \E key \in Keys : QueryUnauthorized(key)
  \/ Budget /\ \E key \in Keys : QueryBegin(key, TRUE, TRUE)
  \/ CallRetrieveDocuments(ServiceQueries)
  \/ CallGetAllCtcValues
  \/ CallGetExpLocations(ServiceExperiences)
  \/ CallCtcQuery(ServiceQueries)
  \/ CallGetExchangeRate
  \/ AgentAnswer(TRUE)
  \/ AgentError(TRUE)
  \/ Budget /\ \E key \in Keys : LogsUnauthorized(key)
  \/ Budget /\ \E key \in Keys, date \in Dates, log_type \in LogTypeParams :
                 GetLogs(key, date, log_type, TRUE)

ApiSpec == Init /\ [][ApiNext]_vars

\* The three endpoints under requests that carry the key, with log files whose
\* writes can fail; of the agent, only that it answers or fails.
LogNext ==
  \/ Budget /\ \E filename \in Filenames, ok \in BOOLEAN :
                 UploadWrongType(Secret, filename, ok)
  \/ Budget /\ \E filename \in Filenames, f \in ApiFiles, ok \in BOOLEAN :
                 Upload(Secret, filename, f, ok)
  \/ IngestRead
  \/ IngestDropName
  \/ IngestDocs
  \/ IngestIndex
  \/ Budget /\ \E ok1, ok2 \in BOOLEAN : QueryBegin(Secret, ok1, ok2)
  \/ \E ok \in BOOLEAN : AgentAnswer(ok)
  \/ \E ok \in BOOLEAN : AgentError(ok)
  \/ Budget /\ \E date \in Dates, log_type \in LogTypeParams, ok \in BOOLEAN :
                 GetLogs(Secret, date, log_type, ok)

LogSpec == Init /\ [][LogNext]_vars

\* ------------------------------------------------------- tool specification
\* The tools on every table of up to MaxRows rows: the service after the
\* successful ingest of such a spreadsheet, with an agent invocation in flight.
ToolFiles ==
  {Sheet(AllColumns, rows) : rows \in SeqsOf(RowKinds, 1, MaxRows)}
    \cup {Sheet(AllColumns \ {"CTC"}, <<RowPune10>>),
          Sheet(AllColumns \ {"Location"}, <<RowPune10, RowMumbai5>>),
          Sheet(AllColumns \ {"Exp"}, <<RowMumbai5>>),
          Sheet(AllColumns, <<RowNowhere7>>),
          Sheet(AllColumns, <<RowPune10, RowNowhere7, RowMumbai5>>)}

ToolInit ==
  \E f \in ToolFiles :
    LET t == DropName(ReadExcel(f, 1))
        d == SplitDocuments(BuildDocs(t))
    IN  /\ df = Some(t) /\ docs = d /\ vector_store = Some(FromDocuments(d, 1))
        /\ nUploads = 1 /\ ingPc = "idle" /\ ingFile = f /\ ingReturn = "True"
        /\ pre = [df |-> NoneV, docs |-> <<>>, vector_store |-> NoneV]
        /\ everOk = TRUE
        /\ qPc = "agent" /\ qStatus = 0 /\ qObs = {}
        /\ toolCall = NoCall /\ toolIn = NoInput
        /\ upHttp = [key |-> Secret, excel |-> TRUE, resp |-> Resp(200, "UploadStatus")]
        /\ qKey = Secret /\ nQueries = 1 /\ logHttp = NoLogRead
        /\ logs = log_query(log_file_upload(NoLogs, "upload", 1, TRUE), "query", 1, TRUE)
        /\ lost = {}

\* one tool call on each table
ToolNext ==
  \/ toolCall = NoCall /\ CallRetrieveDocuments(CountQueries)
  \/ toolCall = NoCall /\ CallGetAllCtcValues
  \/ toolCall = NoCall /\ CallGetExpLocations(Experiences)
  \/ toolCall = NoCall /\ CallCtcQuery(Queries)
  \/ toolCall = NoCall /\ CallGetExchangeRate

ToolSpec == ToolInit /\ [][ToolNext]_vars

\* ------------------------------------------------------------------- claims
Table == The(df)
IsNumericCell(c) == c.kind \in {"num", "numtext"}
\* the count a query's phrases name
ExpectedN(q) ==
  IF ~IsNone(q.top.n) THEN Max(1, The(q.top.n))
  ELSE IF ~IsNone(q.noun.n) THEN Max(1, The(q.noun.n))
  ELSE 3
\* the rows a ranked query ranks: a numeric CTC, and the location loc if one is given
Eligible(t, loc) ==
  {i \in 1..Len(t.rows) :
     /\ IsNumericCell(t.rows[i]["CTC"])
     /\ IsNone(loc) \/ Lower(t.rows[i]["Location"]) = Lower(The(loc))}
CtcOf(row) == row["CTC"].num
RankedCall ==
  /\ toolCall.tool = "ctc_query"
  /\ {"CTC", "Location"} \subseteq Table.columns

\* C1: when ingest_data returns False, df, docs and vector_store hold the
\* values they had before the call, and whenever no ingest is running the
\* table and the index come from the same upload.
C1_FailedIngestExposesNothing ==
  /\ ingReturn = "False" =>
       /\ df = pre.df /\ docs = pre.docs /\ vector_store = pre.vector_store
  /\ ingPc = "idle" => SrcOf(df) = SrcOf(vector_store)

\* C2: every tool call of an agent invocation finds a table and an index of
\* the same upload, and all tool calls of one invocation find the same upload.
C2_ToolCallsSeeOneUpload ==
  /\ \A o \in qObs : o.df = o.vector_store
  /\ Cardinality(qObs) <= 1

\* C3: as long as no upload has succeeded, get_agent_executor raises: no agent
\* is in flight, no tool has been called, and a query answered so far was
\* answered 500.
C3_NoTableNoAnswer ==
  ~everOk =>
    /\ NotInitialized(vector_store, df)
    /\ qPc \in {"idle", "done"}
    /\ qPc = "done" => qStatus = (IF qKey = Secret THEN 500 ELSE 401)
    /\ toolCall = NoCall /\ qObs = {}

\* a query was answered 500 after an upload that failed partway: the table
\* is there, the index is not
C3_Witness ==
  /\ ~everOk /\ ~IsNone(df) /\ ingReturn = "False"
  /\ qPc = "done" /\ qStatus = 500

\* C4: no tool call ends by raising.
C4_NoToolRaises == toolCall.outcome # "raised"

\* C5: a ranked query on a table with an eligible row returns the first N of
\* the eligible rows in the order asked for: count = min(N, eligible rows), in
\* order, no eligible row left out ranks strictly before a returned one, and
\* 'order' says lowest or highest as the query does.
C5_RankedFirstN ==
  RankedCall =>
    LET q == toolIn.query
        asc == q.ord.lowest
        E == Eligible(Table, toolCall.location)
        idx == toolCall.index
        res == toolCall.results
        before(a, b) == IF asc THEN a < b ELSE a > b
    IN  /\ (q.loc = NoPhrase /\ Eligible(Table, NoneV) # {}) => toolCall.kind = "struct"
        /\ toolCall.kind = "struct" =>
             /\ E # {}
             /\ toolCall.order = (IF asc THEN "lowest" ELSE "highest")
             /\ toolCall.count = Min(ExpectedN(q), Cardinality(E))
             /\ Len(res) = toolCall.count /\ Len(idx) = toolCall.count
             /\ \A k \in 1..Len(idx) : idx[k] \in E /\ res[k] = Table.rows[idx[k]]
             /\ \A a, b \in 1..Len(idx) : a # b => idx[a] # idx[b]
             /\ \A a, b \in 1..Len(res) : a < b => ~before(CtcOf(res[b]), CtcOf(res[a]))
             /\ \A e \in E : (\A k \in 1..Len(idx) : idx[k] # e) =>
                  \A k \in 1..Len(res) : ~before(CtcOf(Table.rows[e]), CtcOf(res[k]))

\* the two lowest of three eligible rows, in ascending order
C5_Witness ==
  /\ RankedCall /\ toolCall.kind = "struct"
  /\ toolCall.order = "lowest" /\ toolCall.count = 2
  /\ Cardinality(Eligible(Table, toolCall.location)) = 3
  /\ CtcOf(toolCall.results[1]) = 5 /\ CtcOf(toolCall.results[2]) = 10

\* the first Location value of the table, in the order of first appearance,
\* that the lower-cased query contains
FirstNamedLocation(t, q) ==
  LET locs == Unique([i \in 1..Len(t.rows) |-> t.rows[i]["Location"]])
      hits == {k \in 1..Len(locs) :
                 locs[k] # P_Blank /\ Contains(Lower(QueryText(q)), Lower(locs[k]))}
  IN  IF hits = {} THEN NoneV ELSE Some(locs[CHOOSE k \in hits : \A j \in hits : k <= j])

\* C6: the location a ranked query reports is the first Location value of the
\* table that the query contains (none when it contains none), and every row
\* returned has that location.
C6_LocationOfTheTable ==
  (RankedCall /\ toolCall.kind = "struct") =>
    /\ toolCall.location = FirstNamedLocation(Table, toolIn.query)
    /\ ~IsNone(toolCall.location) =>
         \A k \in 1..Len(toolCall.results) :
           Lower(toolCall.results[k]["Location"]) = Lower(The(toolCall.location))

\* C7: a ranked query never returns a structured result with count 0, and when
\* it names a location of the table that has no row with a numeric CTC it
\* returns the 'no matching records' message, not rows of other locations; an
\* experience no row has gets the 'no candidates found' message.
C7_EmptyResultIsSaid ==
  /\ RankedCall =>
       /\ ~(toolCall.kind = "struct" /\ toolCall.count = 0)
       /\ LET named == FirstNamedLocation(Table, toolIn.query)
          IN  (~IsNone(named) /\ Eligible(Table, named) = {}) =>
                /\ toolCall.kind = "text"
                /\ toolCall.text = "No matching records found for the given criteria."
  /\ (toolCall.tool = "get_exp_locations" /\ "Exp" \in Table.columns
        /\ \A i \in 1..Len(Table.rows) : AsStr(Table.rows[i]["Exp"]) # toolIn.experience)
       => toolCall.text = "No candidates found with that exact experience."

\* C8: no record a ranked query returns, and no metadata of an indexed or
\* retrieved chunk, has a Name field.
C8_NameNeverExposed ==
  /\ toolCall.tool = "ctc_query" =>
       \A k \in 1..Len(toolCall.results) : "Name" \notin DOMAIN toolCall.results[k]
  /\ toolCall.tool = "retrieve_documents" =>
       \A k \in 1..Len(toolCall.results) :
         "Name" \notin DOMAIN toolCall.results[k].metadata
  /\ \A k \in 1..Len(docs) : "Name" \notin DOMAIN docs[k].metadata
  /\ ~IsNone(vector_store) =>
       \A k \in 1..Len(The(vector_store).chunks) :
         "Name" \notin DOMAIN The(vector_store).chunks[k].metadata

CountedCall ==
  /\ toolCall.tool \in {"ctc_query", "retrieve_documents"}
  /\ toolCall.outcome = "returned"

\* C9: the count of a ranked query or a retrieval is the number after 'top' or
\* 'first' if the query has one, else the number before 'results', 'records',
\* 'candidates' or 'items', else 3, and at least 1; no more rows than that are
\* returned.
C9_TopN ==
  CountedCall =>
    /\ TopN(QueryText(toolIn.query)) = ExpectedN(toolIn.query)
    /\ Len(toolCall.results) <= ExpectedN(toolIn.query)
    /\ (toolIn.query.top.n = NoneV /\ toolIn.query.noun.n = NoneV) =>
         Len(toolCall.results) <= 3

\* 'FIRST0' beside '5 Records': the first pattern wins and 0 is raised to 1,
\* on a table with more than one row to return
C9_Witness ==
  /\ RankedCall /\ toolCall.kind = "struct"
  /\ toolIn.query.top.n = Some(0) /\ toolIn.query.noun.n = Some(5)
  /\ Cardinality(Eligible(Table, toolCall.location)) >= 2
  /\ toolCall.count = 1

\* the table without the rows whose CTC is no number
NumericOnly(t) ==
  [t EXCEPT !.rows = SelectSeq(t.rows, LAMBDA r : IsNumericCell(r["CTC"]))]

\* C10: get_all_ctc_values returns the numeric CTC values in table order, and
\* a ranked query returns rows with a numeric CTC only, the same rows it
\* returns on the table without the other rows.
C10_NonNumericExcluded ==
  /\ (toolCall.tool = "get_all_ctc_values" /\ "CTC" \in Table.columns) =>
       LET nums == NumericOnly(Table).rows
       IN  /\ toolCall.kind = "json"
           /\ toolCall.values = [k \in 1..Len(nums) |-> CtcOf(nums[k])]
  /\ RankedCall =>
       /\ \A k \in 1..Len(toolCall.results) : IsNumericCell(toolCall.results[k]["CTC"])
       /\ \E r \in ctc_query(Some(NumericOnly(Table)), QueryText(toolIn.query)) :
            /\ r.kind = toolCall.kind /\ r.results = toolCall.results
            /\ r.location = toolCall.location /\ r.order = toolCall.order

\* two values returned from a table with a row that has none
C10_Witness ==
  /\ toolCall.tool = "get_all_ctc_values" /\ toolCall.kind = "json"
  /\ Len(toolCall.values) = 2 /\ Len(Table.rows) = 3
  /\ \E i \in 1..3 : Table.rows[i]["CTC"].kind = "blank"

\* the rows of t, in table order, whose Exp cell reads as the text e
ExpRows(t, e) ==
  SelectSeq([i \in 1..Len(t.rows) |-> i],
            LAMBDA i : t.rows[i]["Exp"].kind # "blank" /\ t.rows[i]["Exp"].text = e)
ExpCall ==
  /\ toolCall.tool = "get_exp_locations"
  /\ {"Exp", "Location"} \subseteq Table.columns

\* C11: get_exp_locations returns the Location values, in table order, of
\* exactly the rows whose Exp text equals the input character for character,
\* and the 'no candidates found' message when there is no such row.
C11_ExactExperienceMatch ==
  (ExpCall /\ toolIn.experience # "nan") =>
    LET rows == ExpRows(Table, toolIn.experience)
    IN  IF Len(rows) = 0
        THEN /\ toolCall.kind = "text"
             /\ toolCall.text = "No candidates found with that exact experience."
        ELSE /\ toolCall.kind = "locations"
             /\ toolCall.index = rows
             /\ toolCall.results = [k \in 1..Len(rows) |-> Table.rows[rows[k]]["Location"]]

\* a step of the ingest_data call of the upload in progress, and of nothing else
IngestStep ==
  /\ ingPc # "idle"
  /\ toolCall' = toolCall /\ toolIn' = toolIn /\ qPc' = qPc /\ qStatus' = qStatus
  /\ nQueries' = nQueries /\ logHttp' = logHttp

\* the table holds the rows of the file f, all of them and no other
TableIsOf(d, f, n) ==
  /\ ~IsNone(d) /\ The(d).src = n
  /\ The(d).columns \subseteq f.columns
  /\ Len(The(d).rows) = Len(f.rows)
  /\ \A i \in 1..Len(f.rows) : The(d).rows[i] = Project(f.rows[i], The(d).columns)

\* every chunk is a piece of the Skills text of a row of the table, with that
\* row's metadata, and every row has a chunk
ChunksAreOf(ds, d) ==
  /\ ~IsNone(d)
  /\ \A k \in 1..Len(ds) : \E i \in 1..Len(The(d).rows) :
       /\ ds[k].page_content.text = The(d).rows[i]["Skills"].text
       /\ ds[k].metadata = Metadata(The(d), The(d).rows[i])
  /\ \A i \in 1..Len(The(d).rows) : \E k \in 1..Len(ds) :
       ds[k].page_content.text = The(d).rows[i]["Skills"].text

\* C12: the table, the chunk list and the index change only in a step of an
\* upload's ingest (no tool call, no get_agent_executor call, no /query/ and no
\* /logs/ request changes them), and what an upload puts there is made of the
\* uploaded file alone: the table is the file's rows, the chunks are chunks of
\* that table, the index is an index of those chunks.
C12_ImmutableBetweenUploads ==
  [][/\ (df' # df \/ docs' # docs \/ vector_store' # vector_store) => IngestStep
     /\ df' # df => TableIsOf(df', ingFile, nUploads)
     /\ docs' # docs => ChunksAreOf(docs', df')
     /\ vector_store' # vector_store =>
          /\ ~IsNone(vector_store')
          /\ The(vector_store').chunks = docs' /\ The(vector_store').src = nUploads
    ]_vars

\* a ranked query has returned rows of the table of a second successful
\* upload, which holds the second file's rows
C12_Witness ==
  /\ nUploads = 2 /\ ingReturn = "True" /\ ingPc = "idle"
  /\ SrcOf(df) = 2 /\ SrcOf(vector_store) = 2 /\ SrcOf(pre.df) = 1
  /\ toolCall.tool = "ctc_query" /\ toolCall.kind = "struct"
  /\ TableIsOf(df, ingFile, 2) /\ The(df) # The(pre.df)

\* C13: a call of get_exchange_rate sends one request; when the request fails
\* (no answer, an HTTP error status) or the answer is an object without
\* conversion_rate it returns None and does not raise; when the answer is an
\* object with conversion_rate it returns the rate of that answer.
C13_OneRequestOneRate ==
  toolCall.tool = "get_exchange_rate" =>
    LET response == toolIn.response IN
    /\ toolCall.requests = 1
    /\ response.kind \in {"network_error", "http_error", "object_without_rate"} =>
         /\ toolCall.outcome = "returned" /\ toolCall.rate = NoneV
    /\ response.kind = "rate_object" =>
         /\ toolCall.outcome = "returned" /\ toolCall.rate = Some(response.rate)

\* a call of an agent invocation answered with the higher of the rates
C13_Witness ==
  /\ toolCall.tool = "get_exchange_rate" /\ toolCall.outcome = "returned"
  /\ toolIn.response.kind = "rate_object" /\ toolCall.rate = Some(121)
  /\ toolIn.to_currency = "EUR" /\ qPc = "agent" /\ qObs # {}

\* C14: an upload request with the key is answered 400 when its file name is
\* no Excel name, and then ingest_data is not called and the table, the chunks
\* and the index stay as they are; otherwise it is answered when ingest_data
\* returns: 200 with an UploadStatus when it returns True, 500 when it returns
\* False; it is answered 200 in no other case.
C14_UploadAnswers ==
  [][(upHttp' # upHttp /\ upHttp'.key = Secret) =>
       /\ (ingPc = "idle" /\ ~upHttp'.excel) =>
            /\ upHttp'.resp.status = 400
            /\ ingPc' = "idle" /\ ingReturn' = ingReturn
            /\ df' = df /\ docs' = docs /\ vector_store' = vector_store
       /\ upHttp'.resp.status = 400 => ~upHttp'.excel
       /\ (ingPc # "idle" /\ ingPc' = "idle") =>
            IF ingReturn' = "True"
            THEN upHttp'.resp = Resp(200, "UploadStatus")
            ELSE upHttp'.resp.status = 500
       /\ upHttp'.resp.status = 200 =>
            /\ ingReturn' = "True" /\ upHttp'.resp.body = "UploadStatus"
    ]_vars

\* the step leaves the table, the chunks, the index and the log files as they
\* are and starts no ingest, no agent invocation and no tool call
NothingHappens ==
  /\ df' = df /\ docs' = docs /\ vector_store' = vector_store
  /\ logs' = logs /\ lost' = lost
  /\ ingPc' = ingPc /\ ingReturn' = ingReturn /\ ingFile' = ingFile
  /\ (qPc' = "agent" => qPc = "agent")
  /\ toolCall' = toolCall /\ toolIn' = toolIn /\ qObs' = qObs

\* C15: a request to /upload-excel/, /query/ or /logs/ whose key is missing or
\* is not the secret is answered 401 and nothing happens: no ingest, no agent
\* invocation, no log read, no change of the table, the index or a log file;
\* a request with the secret is not answered 401.
C15_EveryEndpointGuarded ==
  [][/\ nUploads' # nUploads =>
          IF upHttp'.key # Secret
          THEN upHttp'.resp = Resp(401, "detail") /\ NothingHappens
          ELSE upHttp'.resp.status # 401
     /\ nQueries' # nQueries =>
          IF qKey' # Secret
          THEN qStatus' = 401 /\ NothingHappens
          ELSE qStatus' # 401
     /\ logHttp'.n # logHttp.n =>
          IF logHttp'.key # Secret
          THEN /\ logHttp'.resp = Resp(401, "detail") /\ logHttp'.count = 0
               /\ NothingHappens
          ELSE logHttp'.resp.status # 401
    ]_vars

\* after a successful upload, a query without a key and a log read with
\* another key were both answered 401, and no query is in the log
C15_Witness ==
  /\ everOk /\ ~IsNone(vector_store)
  /\ nQueries = 1 /\ qKey = NoKey /\ qStatus = 401
  /\ logHttp.n = 1 /\ logHttp.key = "other-key" /\ logHttp.resp.status = 401
  /\ logs["queries"] = <<>> /\ toolCall = NoCall

\* the entries of a /query/ request
QueryLog(n) == LogData("user_query", "", "query", n)
ResponseLog(n) == LogData("rag_response", "", "query", n)
QueryErrorLog(n) == LogData("error", "query_error", "query", n)

IsPrefix(s, t) == Len(s) <= Len(t) /\ SubSeq(t, 1, Len(s)) = s
IsByQuery(e) == e.by = "query"
\* what the /query/ requests have written to a file, and what they have lost
QueryEntries(l, t) == SelectSeq(l[t], IsByQuery)
QueryLost(s) == {e \in s : IsByQuery(e)}

\* the step takes in a /query/ request with the key; the step answers one
QueryArrives == nQueries' # nQueries /\ qKey' = Secret
QueryAnswered ==
  /\ qKey' = Secret /\ qPc' = "done"
  /\ qPc # "done" \/ nQueries' # nQueries

\* the step appends e to the file t
Appended(t, e) == logs'[t] = Append(logs[t], e)
\* the step tries once to append e to the file t: e is appended, or the write
\* fails and the file stays as it is
Attempted(t, e) ==
  \/ Appended(t, e) /\ (e \in lost' <=> e \in lost)
  \/ logs'[t] = logs[t] /\ e \in lost' /\ e \notin lost

\* no step removes or rewrites an entry, and only the steps that take in or
\* answer a /query/ request write entries of /query/ requests
AppendOnly ==
  /\ \A t \in LogTypes : IsPrefix(logs[t], logs'[t])
  /\ lost \subseteq lost'
  /\ ~QueryArrives /\ ~QueryAnswered =>
       /\ \A t \in LogTypes : QueryEntries(logs', t) = QueryEntries(logs, t)
       /\ QueryLost(lost') = QueryLost(lost)

\* C16 as stated: a /query/ request with the key appends exactly one user_query
\* entry when it arrives, before the agent is created, and exactly one
\* rag_response entry (answer 200) or query_error entry (answer 500) when it is
\* answered, never both and never neither; no entry is removed or rewritten.
C16_ExactlyOneEntryEach ==
  [][/\ AppendOnly
     /\ QueryArrives => Appended("queries", QueryLog(nQueries'))
     /\ ~QueryArrives => QueryEntries(logs', "queries") = QueryEntries(logs, "queries")
     /\ QueryAnswered =>
          IF qStatus' = 200
          THEN /\ Appended("responses", ResponseLog(nQueries'))
               /\ logs'["errors"] = logs["errors"]
          ELSE /\ qStatus' = 500
               /\ Appended("errors", QueryErrorLog(nQueries'))
               /\ logs'["responses"] = logs["responses"]
    ]_vars

\* C16, amended: a /query/ request with the key tries exactly once to append a
\* user_query entry when it arrives, before the agent is created, and exactly
\* once to append a rag_response entry (answer 200) or a query_error entry
\* (answer 500) when it is answered, never both and never neither; a try whose
\* write fails adds nothing and the request goes on; no entry is removed or
\* rewritten.
C16_OneAttemptEach ==
  [][/\ AppendOnly
     /\ QueryArrives => Attempted("queries", QueryLog(nQueries'))
     /\ ~QueryArrives =>
          /\ QueryEntries(logs', "queries") = QueryEntries(logs, "queries")
          /\ \A n \in 1..MaxRequests : QueryLog(n) \in lost' <=> QueryLog(n) \in lost
     /\ QueryArrives /\ qPc' = "agent" =>
          /\ logs'["responses"] = logs["responses"]
          /\ logs'["errors"] = logs["errors"]
          /\ QueryLost(lost') \ QueryLost(lost) \subseteq {QueryLog(nQueries')}
     /\ QueryAnswered =>
          IF qStatus' = 200
          THEN /\ Attempted("responses", ResponseLog(nQueries'))
               /\ logs'["errors"] = logs["errors"]
               /\ QueryErrorLog(nQueries') \notin lost'
          ELSE /\ qStatus' = 500
               /\ Attempted("errors", QueryErrorLog(nQueries'))
               /\ logs'["responses"] = logs["responses"]
               /\ ResponseLog(nQueries') \notin lost'
    ]_vars

\* a query was answered 200: its user_query entry was lost to a failed write,
\* its rag_response entry was appended, and the entry of an earlier /logs/
\* request is still in the queries file
C16_Witness ==
  /\ qKey = Secret /\ qPc = "done" /\ qStatus = 200
  /\ QueryLog(1) \in lost
  /\ logs["responses"] = <<ResponseLog(1)>>
  /\ logs["queries"] = <<LogData("user_query", "", "logs", 1)>>
  /\ logs["errors"] = <<>>

====
